---- MODULE Spec2Model ----
(***************************************************************************)
(* Distributed evaluation scoring of tasks/eval_utils.py.                  *)
(*                                                                         *)
(* Spec         the data-parallel group: every worker runs metrics_func    *)
(*              (or evaluate_metrics directly) over the same dataloader    *)
(*              list and meets the others in torch.distributed.all_reduce. *)
(* FairSpec     Spec with weak fairness of every worker (each process      *)
(*              keeps running its single thread of control).               *)
(* SpecForward  the forward pass of one batch (lines 127-141).             *)
(* SpecMask     the loss mask and the argmax of one batch (142-158).       *)
(*                                                                         *)
(* Metric keys are strings in the source; here a key is a natural number   *)
(* whose order is the lexicographic order of the string it stands for.     *)
(* Sums are floats in the source; here they are integers. Python's floats   *)
(* (doubles) hold every integer of the model exactly; the float32 tensor of *)
(* line 170 holds integers up to 2^24 and rounds the larger ones.           *)
(***************************************************************************)
EXTENDS Integers, Sequences, FiniteSets, TLC

\* ---------------------------------------------------------------- constants
segment_length == 10

MaskFill == 10000

\* torch.cuda.FloatTensor: 24 bits of significand, every integer up to 2^24
F32Exact == 16777216

\* ------------------------------------------------------------------- bounds
MaxWorkers == 2

MaxLoaders == 2

\* examples in one worker's shard of one dataloader
MaxShard == 2

MaxSeqLen == 23

MaxClasses == 3

\* The metric_dict mappings tried, as the sequence of keys in insertion order.
MetricDicts == { << >>, <<3>>, <<2, 1>> }

\* The values a logit takes in SpecMask, around the fill value.
LogitVals == { -MaskFill - 1, -MaskFill, -MaskFill + 1, 0, 3 }

VARIABLES
    \* configuration shared by the group
    world_size,          \* mpu.get_data_parallel_world_size()
    metric_dict,         \* keys of metric_dict, in insertion order
    output_predictions,  \* the output_predictions argument
    dataloaders,         \* dataloaders; each entry is dataset.labeled
    entry,               \* which function the driver calls
    \* per worker
    pc,                  \* position of the worker
    mode,                \* model.training: "train" or "eval"
    ld,                  \* number of evaluate_metrics calls begun
    batch_labels,        \* labels_.size(0) of each batch of this dataloader
    metric_calls,        \* per key, metric invocations in this dataloader
    model_calls,         \* batches run through the model in the whole call
    score_dict,          \* evaluate_metrics' score_dict
    total,               \* evaluate_metrics' total
    agg_score,           \* metrics_func's score_dict
    agg_total,           \* metrics_func's total
    contrib,             \* what the worker handed to each all_reduce
    left,                \* number of all_reduce calls that returned
    reduced,             \* (score_dict, total_count) after each unpack
    rates,               \* metrics_func's returned score_dict
    wrote,               \* torch.save was called
    err,                 \* the exception that ended the call
    rank,                \* torch.distributed.get_rank() as read at line 84
    args_load,           \* args.load is not None, as read at line 85
    \* one batch's forward pass
    fpc, input_mode, inputs, chunk_i, logit_list, logits, calls,
    has_loss_mask, loss_mask, raw_logits, predicted

cfgVars == <<world_size, metric_dict, output_predictions, dataloaders, entry>>

workerVars == <<pc, mode, ld, batch_labels, metric_calls, model_calls, score_dict,
                total, agg_score, agg_total, contrib, left, reduced, rates, wrote,
                err, rank, args_load>>

fwdVars == <<fpc, input_mode, inputs, chunk_i, logit_list, logits, calls,
             has_loss_mask, loss_mask, raw_logits, predicted>>

vars == <<cfgVars, workerVars, fwdVars>>

\* ------------------------------------------------------------------ helpers
Range(s) == { s[i] : i \in DOMAIN s }

IndexOf(key, keys) == CHOOSE i \in DOMAIN keys : keys[i] = key

RECURSIVE SumSeq(_)
SumSeq(s) == IF s = << >> THEN 0 ELSE Head(s) + SumSeq(Tail(s))

RECURSIVE GCD(_, _)
GCD(a, b) == IF b = 0 THEN a ELSE GCD(b, a % b)

\* The quotient score / float(total), kept exact as a fraction in lowest terms.
Quotient(score, tot) == LET g == GCD(score, tot) IN <<score \div g, tot \div g>>

Workers == 1 .. world_size

\* keys.sort() (line 168)
RECURSIVE SortSet(_)
SortSet(S) ==
    IF S = {} THEN << >>
    ELSE LET m == CHOOSE x \in S : \A y \in S : x <= y
         IN  <<m>> \o SortSet(S \ {m})

SortedKeys(sd) == SortSet(DOMAIN sd)

\* {key: 0.0 for key in metric_dict} (lines 55, 105)
ZeroScores == [key \in Range(metric_dict) |-> 0]

\* The float32 nearest to a non-negative integer (round to nearest, ties to
\* even): what torch.cuda.FloatTensor(...) stores and .tolist() gives back.
RECURSIVE Ulp(_, _)
Ulp(x, q) == IF x < F32Exact * q THEN q ELSE Ulp(x, 2 * q)

RoundEven(x, q) ==
    LET r  == x % q
        lo == x - r
    IN  IF 2 * r < q THEN lo
        ELSE IF 2 * r > q THEN lo + q
        ELSE IF (lo \div q) % 2 = 0 THEN lo ELSE lo + q

\* (y is the value of x, computed once)
F32(x) ==
    CHOOSE z \in { IF y < F32Exact THEN y ELSE RoundEven(y, Ulp(y, 1)) : y \in {x} } :
        TRUE

\* torch.cuda.FloatTensor([score_dict[key] for key in keys] + [total])
\* (lines 169-170)
Pack(sd, tot, keys) ==
    [i \in 1 .. Len(keys) + 1 |-> F32(IF i <= Len(keys) THEN sd[keys[i]] ELSE tot)]

\* faulty variant: the vector read back in the reverse key order
UnpackSwapped(vec, keys) ==
    [key \in Range(keys) |-> vec[Len(keys) + 1 - IndexOf(key, keys)]]

\* for i, key in enumerate(keys): score_dict[key] = unreduced[i] (lines 175-176)
Unpack(vec, keys) == [key \in Range(keys) |-> vec[IndexOf(key, keys)]]

\* total_count = unreduced[-1] (line 177)
TotalCount(vec) == vec[Len(vec)]

\* faulty variant: the assertion left out
NoAssert == TRUE

\* assert mpu.get_data_parallel_world_size() == 1 (lines 58, 108)

SingleWorker == world_size = 1

\* faulty variant: every rank writes
AnyRank(r) == TRUE

\* torch.distributed.get_rank() == 0 (line 84)

IsLeader(r) == r = 0

\* The metric registered under a key: a pure function of the batch's
\* predictions and labels, here of the number of correct predictions. Keys 1
\* and 2 score like accuracy_metric (lines 30-35), weighted by the key so
\* that the two never score alike on a batch with a correct prediction;
\* key 3 scores in a unit that float32 cannot hold, as the fractional scores
\* of an F1 metric are.
MetricUnit(key) == IF key = 3 THEN F32Exact + 1 ELSE key * 100

Metric(key, correct) == correct * MetricUnit(key)

\* score_dict[key] += metric(...) for the first `upto` keys of metric_dict
\* (lines 160-161; a metric that raises ends the loop)
ScoreAfter(sd, correct, upto) ==
    [key \in DOMAIN sd |->
        IF IndexOf(key, metric_dict) <= upto
        THEN sd[key] + Metric(key, correct) ELSE sd[key]]

CallsAfter(mc, upto) ==
    [key \in DOMAIN mc |->
        IF IndexOf(key, metric_dict) <= upto THEN mc[key] + 1 ELSE mc[key]]

\* faulty variant: the count moved under `if labeled`
TotalLabeledOnly(tot, n, labeled) == IF labeled THEN tot + n ELSE tot

\* total += labels_.size(0) (line 163)

TotalAfter(tot, n, labeled) == tot + n

\* faulty variant: a division outside the loop over the keys
DivAlways(sd, tot) == tot = 0

\* score / float(total) and value / total_count raise ZeroDivisionError
\* (lines 76, 181); the division is evaluated once per key

DivByZero(sd, tot) == DOMAIN sd # {} /\ tot = 0

\* faulty variant: a reduction that does not wait for the group
NoBarrier(k) == TRUE

\* torch.distributed.all_reduce returns once every member of the group has
\* entered the same collective (line 171)

AllArrived(k) == \A v \in Workers : Len(contrib[v]) >= k

\* the element-wise float32 sum the k-th all_reduce leaves in every member's
\* tensor; the partial sums are taken from the highest rank down
RECURSIVE SumOver(_, _, _)
SumOver(S, k, i) ==
    IF S = {} THEN 0
    ELSE LET v == CHOOSE x \in S : \A y \in S : x <= y
         IN  F32(contrib[v][k].vec[i] + SumOver(S \ {v}, k, i))

Arrived(k) == { v \in Workers : Len(contrib[v]) >= k }

AllReduce(k, n) == [i \in 1 .. n |-> SumOver(Arrived(k), k, i)]

\* faulty variant: = instead of +=
CombineLast(agg, single) == single

\* score_dict[key] += single_dict[key] (lines 73-74)

Combine(agg, single) == [key \in DOMAIN agg |-> agg[key] + single[key]]

\* {key: score / float(total) ...} (line 76)
RatesOf(agg, tot) == [key \in DOMAIN agg |-> Quotient(agg[key], tot)]

\* --------------------------------------------------------------- idle parts
ForwardIdle ==
    /\ fpc = "idle" /\ input_mode = "default" /\ inputs = << >>
    /\ chunk_i = 0 /\ logit_list = << >> /\ logits = << >> /\ calls = << >>
    /\ has_loss_mask = FALSE /\ loss_mask = << >> /\ raw_logits = << >>
    /\ predicted = 0

WorkersAt(start) ==
    /\ pc = [w \in Workers |-> start]
    /\ mode = [w \in Workers |-> "train"]
    /\ ld = [w \in Workers |-> 0]
    /\ batch_labels = [w \in Workers |-> << >>]
    /\ metric_calls = [w \in Workers |-> ZeroScores]
    /\ model_calls = [w \in Workers |-> 0]
    /\ score_dict = [w \in Workers |-> ZeroScores]
    /\ total = [w \in Workers |-> 0]
    /\ agg_score = [w \in Workers |-> ZeroScores]
    /\ agg_total = [w \in Workers |-> 0]
    /\ contrib = [w \in Workers |-> << >>]
    /\ left = [w \in Workers |-> 0]
    /\ reduced = [w \in Workers |-> << >>]
    /\ rates = [w \in Workers |-> << >>]
    /\ wrote = [w \in Workers |-> FALSE]
    /\ err = [w \in Workers |-> "none"]
    /\ rank = [w \in Workers |-> -1]
    /\ args_load = [w \in Workers |-> "unread"]

ProtocolIdle ==
    /\ world_size = 1 /\ metric_dict = << >> /\ output_predictions = FALSE
    /\ dataloaders = << >> /\ entry = "none"
    /\ WorkersAt("idle")

\* ------------------------------------------------------------ the group
LoaderLists == UNION { [1 .. n -> BOOLEAN] : n \in 0 .. MaxLoaders }

Init ==
    /\ world_size \in 1 .. MaxWorkers
    /\ metric_dict \in MetricDicts
    /\ output_predictions \in BOOLEAN
    /\ entry \in {"metrics_func", "evaluate_metrics"}
    /\ dataloaders \in LoaderLists
    /\ entry = "evaluate_metrics" => Len(dataloaders) = 1
    /\ WorkersAt(IF entry = "metrics_func" THEN "mf_start" ELSE "em_call")
    /\ ForwardIdle

Fail(w, e) ==
    /\ pc' = [pc EXCEPT ![w] = "failed"]
    /\ err' = [err EXCEPT ![w] = e]

\* metrics_func, lines 54-61: the accumulators and the single-worker assertion
MetricsFuncStart(w) ==
    /\ pc[w] = "mf_start"
    /\ agg_score' = [agg_score EXCEPT ![w] = ZeroScores]
    /\ agg_total' = [agg_total EXCEPT ![w] = 0]
    /\ IF output_predictions /\ ~SingleWorker
       THEN Fail(w, "assert")
       ELSE /\ pc' = [pc EXCEPT ![w] =
                        IF Len(dataloaders) > 0 THEN "em_call" ELSE "mf_finish"]
            /\ err' = err
    /\ UNCHANGED <<cfgVars, fwdVars, mode, ld, batch_labels, metric_calls,
                   model_calls, score_dict, total, contrib, left, reduced, rates,
                   wrote, rank, args_load>>

\* evaluate_metrics, lines 100-111, entered from line 65 or directly
EvaluateMetricsStart(w) ==
    /\ pc[w] = "em_call"
    /\ ld' = [ld EXCEPT ![w] = @ + 1]
    /\ mode' = [mode EXCEPT ![w] = "eval"]
    /\ total' = [total EXCEPT ![w] = 0]
    /\ score_dict' = [score_dict EXCEPT ![w] = ZeroScores]
    /\ batch_labels' = [batch_labels EXCEPT ![w] = << >>]
    /\ metric_calls' = [metric_calls EXCEPT ![w] = ZeroScores]
    /\ IF output_predictions /\ ~SingleWorker
       THEN Fail(w, "assert")
       ELSE /\ pc' = [pc EXCEPT ![w] = "em_batches"]
            /\ err' = err
    /\ UNCHANGED <<cfgVars, fwdVars, model_calls, agg_score, agg_total, contrib,
                   left, reduced, rates, wrote, rank, args_load>>

\* evaluate_metrics, lines 112-163: one batch of the dataloader
Batch(w) ==
    /\ pc[w] = "em_batches"
    /\ \E n \in 1 .. MaxShard - SumSeq(batch_labels[w]), correct \in 0 .. MaxShard,
          raiseAt \in 0 .. Len(metric_dict) :
        LET labeled == dataloaders[ld[w]]
            nkeys   == Len(metric_dict)
            done    == IF ~labeled THEN 0
                       ELSE IF raiseAt = 0 THEN nkeys ELSE raiseAt - 1
            called  == IF ~labeled THEN 0
                       ELSE IF raiseAt = 0 THEN nkeys ELSE raiseAt
        IN  /\ correct <= n
            /\ ~labeled => (raiseAt = 0 /\ correct = 0)
            /\ batch_labels' = [batch_labels EXCEPT ![w] = Append(@, n)]
            /\ model_calls' = [model_calls EXCEPT ![w] = @ + 1]
            /\ score_dict' = [score_dict EXCEPT ![w] = ScoreAfter(@, correct, done)]
            /\ metric_calls' = [metric_calls EXCEPT ![w] = CallsAfter(@, called)]
            /\ IF raiseAt > 0
               THEN /\ Fail(w, "metric")
                    /\ total' = total
               ELSE /\ total' = [total EXCEPT ![w] = TotalAfter(@, n, labeled)]
                    /\ UNCHANGED <<pc, err>>
    /\ UNCHANGED <<cfgVars, fwdVars, mode, ld, agg_score, agg_total, contrib, left,
                   reduced, rates, wrote, rank, args_load>>

\* evaluate_metrics, lines 164-171: the dataloader is exhausted, the model goes
\* back to training mode and the worker enters the all_reduce
EndBatches(w) ==
    /\ pc[w] = "em_batches"
    /\ mode' = [mode EXCEPT ![w] = "train"]
    /\ LET keys == SortedKeys(score_dict[w])
       IN  contrib' = [contrib EXCEPT ![w] = Append(@,
                          [ld |-> ld[w], keys |-> keys,
                           vec |-> Pack(score_dict[w], total[w], keys),
                           score |-> score_dict[w], total |-> total[w]])]
    /\ pc' = [pc EXCEPT ![w] = "all_reduce"]
    /\ UNCHANGED <<cfgVars, fwdVars, ld, batch_labels, metric_calls, model_calls,
                   score_dict, total, agg_score, agg_total, left, reduced, rates,
                   wrote, err, rank, args_load>>

\* evaluate_metrics, lines 171-185, and metrics_func, lines 67-75: the
\* all_reduce returns, the vector is unpacked, the per-dataset line is
\* formatted and the caller adds the result to its accumulators
AllReduceReturn(w) ==
    /\ pc[w] = "all_reduce"
    /\ AllArrived(Len(contrib[w]))
    /\ \E vec \in { AllReduce(Len(contrib[w]), Len(metric_dict) + 1) } :
       LET keys == contrib[w][Len(contrib[w])].keys
           sd   == Unpack(vec, keys)
           tc   == TotalCount(vec)
       IN  /\ score_dict' = [score_dict EXCEPT ![w] = sd]
           /\ left' = [left EXCEPT ![w] = @ + 1]
           /\ reduced' = [reduced EXCEPT ![w] = Append(@, [score |-> sd, total |-> tc])]
           /\ IF DivByZero(sd, tc)
              THEN /\ Fail(w, "zerodiv")
                   /\ UNCHANGED <<agg_score, agg_total>>
              ELSE IF entry = "evaluate_metrics"
              THEN /\ pc' = [pc EXCEPT ![w] = "returned"]
                   /\ UNCHANGED <<agg_score, agg_total, err>>
              ELSE /\ agg_score' = [agg_score EXCEPT ![w] = Combine(@, sd)]
                   /\ agg_total' = [agg_total EXCEPT ![w] = @ + tc]
                   /\ pc' = [pc EXCEPT ![w] =
                               IF ld[w] < Len(dataloaders) THEN "em_call"
                               ELSE "mf_finish"]
                   /\ err' = err
    /\ UNCHANGED <<cfgVars, fwdVars, mode, ld, batch_labels, metric_calls,
                   model_calls, total, contrib, rates, wrote, rank, args_load>>

\* metrics_func, lines 76-88: the rates, the predictions file, the return
MetricsFuncFinish(w) ==
    /\ pc[w] = "mf_finish"
    /\ IF DivByZero(agg_score[w], agg_total[w])
       THEN /\ Fail(w, "zerodiv")
            /\ UNCHANGED <<rates, wrote, rank, args_load>>
       ELSE /\ rates' = [rates EXCEPT ![w] = RatesOf(agg_score[w], agg_total[w])]
            /\ IF ~output_predictions
               THEN /\ pc' = [pc EXCEPT ![w] = "returned"]
                    /\ UNCHANGED <<wrote, err, rank, args_load>>
               ELSE \E r \in {0, 1} :
                    /\ rank' = [rank EXCEPT ![w] = r]
                    /\ IF ~IsLeader(r)
                       THEN /\ pc' = [pc EXCEPT ![w] = "returned"]
                            /\ UNCHANGED <<wrote, err, args_load>>
                       ELSE \E present \in BOOLEAN :
                            /\ args_load' = [args_load EXCEPT ![w] =
                                               IF present THEN "set" ELSE "None"]
                            /\ IF present
                               THEN /\ wrote' = [wrote EXCEPT ![w] = TRUE]
                                    /\ pc' = [pc EXCEPT ![w] = "returned"]
                                    /\ err' = err
                               ELSE /\ Fail(w, "assert")
                                    /\ wrote' = wrote
    /\ UNCHANGED <<cfgVars, fwdVars, mode, ld, batch_labels, metric_calls,
                   model_calls, score_dict, total, agg_score, agg_total, contrib,
                   left, reduced>>

WorkerStep(w) ==
    /\ w \in Workers
    /\ \/ MetricsFuncStart(w)
       \/ EvaluateMetricsStart(w)
       \/ Batch(w)
       \/ EndBatches(w)
       \/ AllReduceReturn(w)
       \/ MetricsFuncFinish(w)

Next ==
    \/ \E w \in Workers : MetricsFuncStart(w)
    \/ \E w \in Workers : EvaluateMetricsStart(w)
    \/ \E w \in Workers : Batch(w)
    \/ \E w \in Workers : EndBatches(w)
    \/ \E w \in Workers : AllReduceReturn(w)
    \/ \E w \in Workers : MetricsFuncFinish(w)

Spec == Init /\ [][Next]_vars

FairSpec == Spec /\ \A w \in 1 .. MaxWorkers : WF_vars(WorkerStep(w))

\* ------------------------------------------------- one batch: forward pass
\* inputs (lines 115-126): three tensors, five in cloze mode
NumInputs(m) == IF m = "cloze_eval" THEN 5 ELSE 3

\* arg[:, a:b] of Python: both ends are clamped to the tensor's size
Slice(arg, a, b) ==
    LET n  == Len(arg)
        lo == IF a < n THEN a ELSE n
        hi == IF b < n THEN b ELSE n
    IN  SubSeq(arg, lo + 1, hi)

\* model(*input_batch): one logit per position of the first input, computed
\* from every input at that position (the model is a black box; what matters
\* is that its result is tied to the positions it was given)
RECURSIVE SumAt(_, _, _)
SumAt(batch, j, q) ==
    IF j = 0 THEN 0 ELSE batch[j][q] + SumAt(batch, j - 1, q)

Model(batch) == [q \in 1 .. Len(batch[1]) |-> SumAt(batch, Len(batch), q) % 7]

\* faulty variant: size // segment_length + 1
NumChunksFloor(L) == L \div segment_length + 1

\* range((inputs[0].size(1) - 1) // segment_length + 1) (line 129)

NumChunks(L) == (L - 1) \div segment_length + 1

\* torch.cat(logit_list, dim=1) (line 136)
RECURSIVE Cat(_)
Cat(list) == IF list = << >> THEN << >> ELSE Head(list) \o Cat(Tail(list))

InitForward ==
    /\ ProtocolIdle
    /\ fpc = "forward"
    /\ input_mode \in {"pretrained_bert", "cloze_eval", "default"}
    /\ \E L \in 1 .. MaxSeqLen :
          inputs = [j \in 1 .. NumInputs(input_mode) |-> [p \in 1 .. L |-> 100 * j + p]]
    /\ chunk_i = 0 /\ logit_list = << >> /\ logits = << >> /\ calls = << >>
    /\ has_loss_mask = FALSE /\ loss_mask = << >> /\ raw_logits = << >>
    /\ predicted = 0

\* lines 127, 137-141: the sequence fits in one segment
ForwardFull ==
    /\ fpc = "forward"
    /\ ~(Len(inputs[1]) > segment_length)
    /\ calls' = Append(calls, inputs)
    /\ logits' = Model(inputs)
    /\ fpc' = "done"
    /\ UNCHANGED <<cfgVars, workerVars, input_mode, inputs, chunk_i, logit_list,
                   has_loss_mask, loss_mask, raw_logits, predicted>>

\* lines 127-128: the sequence is longer than one segment
ChunkBegin ==
    /\ fpc = "forward"
    /\ Len(inputs[1]) > segment_length
    /\ logit_list' = << >>
    /\ chunk_i' = 0
    /\ fpc' = "chunk"
    /\ UNCHANGED <<cfgVars, workerVars, input_mode, inputs, logits, calls,
                   has_loss_mask, loss_mask, raw_logits, predicted>>

\* lines 129-135: one iteration of the segment loop
ChunkStep ==
    /\ fpc = "chunk"
    /\ chunk_i < NumChunks(Len(inputs[1]))
    /\ LET input_batch == [j \in DOMAIN inputs |->
                             Slice(inputs[j], chunk_i * segment_length,
                                   (chunk_i + 1) * segment_length)]
       IN  /\ calls' = Append(calls, input_batch)
           /\ logit_list' = Append(logit_list, Model(input_batch))
    /\ chunk_i' = chunk_i + 1
    /\ UNCHANGED <<cfgVars, workerVars, fpc, input_mode, inputs, logits,
                   has_loss_mask, loss_mask, raw_logits, predicted>>

\* line 136: the loop is over, the logits are concatenated
ChunkConcat ==
    /\ fpc = "chunk"
    /\ ~(chunk_i < NumChunks(Len(inputs[1])))
    /\ logits' = Cat(logit_list)
    /\ fpc' = "done"
    /\ UNCHANGED <<cfgVars, workerVars, input_mode, inputs, chunk_i, logit_list,
                   calls, has_loss_mask, loss_mask, raw_logits, predicted>>

NextForward == ForwardFull \/ ChunkBegin \/ ChunkStep \/ ChunkConcat

SpecForward == InitForward /\ [][NextForward]_vars

\* ------------------------------------------- one batch: loss mask and argmax
\* faulty variant: the fill value added
LossMaskAdd(lg, mask) ==
    [p \in DOMAIN lg |-> lg[p] * mask[p] + MaskFill * (1 - mask[p])]

\* logits * loss_mask - 10000.0 * (1.0 - loss_mask) (line 144), element-wise

LossMask(lg, mask) ==
    [p \in DOMAIN lg |-> lg[p] * mask[p] - MaskFill * (1 - mask[p])]

\* torch.argmax(logits, dim=-1) (line 158): the first index of the maximum
ArgMax(lg) ==
    CHOOSE p \in DOMAIN lg :
        /\ \A q \in DOMAIN lg : lg[q] <= lg[p]
        /\ \A q \in DOMAIN lg : lg[q] = lg[p] => p <= q

InitMask ==
    /\ ProtocolIdle
    /\ fpc = "logits"
    /\ input_mode = "default" /\ inputs = << >> /\ chunk_i = 0
    /\ logit_list = << >> /\ calls = << >>
    /\ \E n \in 1 .. MaxClasses :
          /\ logits \in [1 .. n -> LogitVals]
          /\ has_loss_mask \in BOOLEAN
          /\ loss_mask \in IF has_loss_mask THEN [1 .. n -> {0, 1}] ELSE { << >> }
    /\ raw_logits = logits
    /\ predicted = 0

\* lines 142-144: the loss mask, when the batch carries one
ApplyLossMask ==
    /\ fpc = "logits"
    /\ logits' = IF has_loss_mask THEN LossMask(logits, loss_mask) ELSE logits
    /\ fpc' = "masked"
    /\ UNCHANGED <<cfgVars, workerVars, input_mode, inputs, chunk_i, logit_list,
                   calls, has_loss_mask, loss_mask, raw_logits, predicted>>

\* line 158: the predicted class
Predict ==
    /\ fpc = "masked"
    /\ predicted' = ArgMax(logits)
    /\ fpc' = "predicted"
    /\ UNCHANGED <<cfgVars, workerVars, input_mode, inputs, chunk_i, logit_list,
                   logits, calls, has_loss_mask, loss_mask, raw_logits>>

NextMask == ApplyLossMask \/ Predict

SpecMask == InitMask /\ [][NextMask]_vars

\* ------------------------------------------------------------------- claims
\* what worker v handed to the k-th reduction, summed over the group
GroupScore(k, key) == SumSeq([v \in Workers |-> contrib[v][k].score[key]])

GroupTotal(k) == SumSeq([v \in Workers |-> contrib[v][k].total])

\* evaluate_metrics has been called and is no longer running
Exited(w) == ld[w] >= 1 /\ pc[w] \in {"em_call", "mf_finish", "returned", "failed"}

\* C1: whenever a call of evaluate_metrics has exited, by a return or by an
\* exception (a metric raising, the single-worker assertion failing, the
\* division by a zero total), the model is in training mode.
C1_TrainModeOnEveryExit == \A w \in Workers : Exited(w) => mode[w] = "train"

Dist(a, b) == IF a < b THEN b - a ELSE a - b

\* one rounding of each of the N local values and of each partial sum
Float32Close(got, exact) == Dist(got, exact) <= (world_size * exact) \div (F32Exact \div 2)

ReducedScore(w, key) == SumSeq([k \in 1 .. Len(reduced[w]) |-> reduced[w][k].score[key]])

ReducedTotal(w) == SumSeq([k \in 1 .. Len(reduced[w]) |-> reduced[w][k].total])

\* C3: the rate metrics_func returns for a key is the sum over the dataloaders
\* of the key's reduced sum, divided by the sum over the dataloaders of the
\* reduced total.
C3_RateIsTotalWeighted ==
    \A w \in Workers :
        (entry = "metrics_func" /\ pc[w] = "returned") =>
            /\ Len(reduced[w]) = Len(dataloaders)
            /\ DOMAIN rates[w] = Range(metric_dict)
            /\ \A key \in Range(metric_dict) :
                  /\ rates[w][key][2] > 0
                  /\ rates[w][key][1] * ReducedTotal(w)
                        = ReducedScore(w, key) * rates[w][key][2]

\* two datasets of rates 100/1 and 0/2: the rate is 100/3, not (100 + 0)/2
C3_Witness ==
    /\ entry = "metrics_func" /\ world_size = 1 /\ metric_dict = <<2, 1>>
    /\ pc[1] = "returned" /\ Len(reduced[1]) = 2
    /\ reduced[1][1].score[1] = 100 /\ reduced[1][1].total = 1
    /\ reduced[1][2].score[1] = 0 /\ reduced[1][2].total = 2
    /\ rates[1][1] = <<100, 3>>

\* C4: the predictions file is written only when output_predictions is set,
\* the data-parallel world size is 1 and the process's global rank is 0.
C4_WriteOnlyRequestedSingleLeader ==
    \A w \in Workers :
        wrote[w] => (output_predictions /\ world_size = 1 /\ rank[w] = 0)

C4_Witness == \E w \in Workers : wrote[w] /\ pc[w] = "returned"

\* C6: with output_predictions set and more than one data-parallel worker, a
\* worker that has begun its call has failed with an assertion error, has run
\* no batch through the model, has entered no reduction and has written no
\* file, whichever function was called.
C6_AssertionAbortsBeforeWork ==
    (output_predictions /\ world_size > 1) =>
        \A w \in Workers :
            \/ pc[w] \in {"mf_start", "em_call"} /\ ld[w] = 0
            \/ /\ pc[w] = "failed" /\ err[w] = "assert"
               /\ model_calls[w] = 0 /\ contrib[w] = << >> /\ left[w] = 0
               /\ ~wrote[w]

C6_Witness ==
    /\ output_predictions /\ world_size = 2 /\ entry = "evaluate_metrics"
    /\ \A w \in Workers : pc[w] = "failed" /\ err[w] = "assert"

\* C8: while a worker is in the reduction its total is the sum of the label
\* counts of the batches of this dataloader, labeled or not; each metric was
\* invoked once per batch if the dataset is labeled and never otherwise, so
\* an unlabeled dataset leaves every sum at 0; the key set never changes.
C8_TotalCountsEveryBatch ==
    \A w \in Workers :
        /\ DOMAIN score_dict[w] = Range(metric_dict)
        /\ pc[w] = "all_reduce" =>
              /\ total[w] = SumSeq(batch_labels[w])
              /\ \A key \in Range(metric_dict) :
                    metric_calls[w][key] =
                        IF dataloaders[ld[w]] THEN Len(batch_labels[w]) ELSE 0
              /\ ~dataloaders[ld[w]] =>
                    \A key \in Range(metric_dict) : score_dict[w][key] = 0

C8_Witness ==
    \E w \in Workers :
        /\ pc[w] = "all_reduce" /\ ~dataloaders[ld[w]] /\ metric_dict = <<2, 1>>
        /\ batch_labels[w] = <<1, 1>> /\ total[w] = 2
        /\ score_dict[w][1] = 0 /\ score_dict[w][2] = 0

\* one entry per dataloader, in registration order, of (number of keys + 1)
\* values in sorted key order, whatever the batches and the labeled flag
C7_Entries ==
    \A w \in Workers :
        /\ \A k \in 1 .. Len(contrib[w]) :
              /\ contrib[w][k].ld = k
              /\ contrib[w][k].keys = SortSet(Range(metric_dict))
              /\ Len(contrib[w][k].vec) = Len(metric_dict) + 1
        /\ Len(contrib[w]) <= ld[w] /\ ld[w] <= Len(contrib[w]) + 1
        /\ pc[w] \in {"all_reduce", "mf_finish", "returned"} => Len(contrib[w]) = ld[w]
        /\ pc[w] \in {"mf_finish", "returned"} => ld[w] = Len(dataloaders)

\* nobody has left a reduction that somebody has not entered
C7_Barrier == \A w \in Workers : \A v \in Workers : Len(contrib[v]) >= left[w]

\* a worker that failed short of a reduction keeps the others from returning
C7_Stalled ==
    \A w \in Workers :
        (pc[w] = "failed" /\ Len(contrib[w]) < Len(dataloaders)) =>
            \A v \in Workers : pc[v] # "returned"

C7_NoFailure == \A w \in Workers : pc[w] # "failed"

C7_AllReturned == \A w \in Workers : pc[w] = "returned"

\* C7: every worker enters one reduction per dataloader, in registration
\* order, with a vector of (number of keys + 1) entries in sorted key order;
\* no worker leaves the k-th reduction before the whole group has entered it;
\* a worker that failed before a reduction keeps every other worker from
\* returning; if no worker fails, every worker eventually returns.
C7_CollectiveReduction ==
    /\ [](C7_Entries /\ C7_Barrier /\ C7_Stalled)
    /\ ([]C7_NoFailure => <>C7_AllReturned)

C7_Witness ==
    /\ world_size = 2 /\ Len(dataloaders) = 2 /\ dataloaders[1] # dataloaders[2]
    /\ metric_dict = <<2, 1>> /\ C7_AllReturned
    /\ contrib[1][1].total = 0 /\ contrib[2][1].total = 2
    /\ \A w \in Workers : left[w] = 2

\* a zero reduced total with a key registered: the worker failed right after
\* that reduction, which the whole group had entered; no key: no division
C10_ZeroTotalSafe ==
    /\ \A w \in Workers : \A k \in 1 .. Len(reduced[w]) :
          (metric_dict # << >> /\ reduced[w][k].total = 0) =>
              /\ k = Len(reduced[w]) /\ left[w] = k
              /\ pc[w] = "failed" /\ err[w] = "zerodiv"
              /\ \A v \in Workers : Len(contrib[v]) >= k
    /\ metric_dict = << >> =>
          \A w \in Workers :
              /\ err[w] # "zerodiv"
              /\ (entry = "metrics_func" /\ pc[w] = "returned") => rates[w] = << >>

C10_SomeZeroDiv == \E w \in Workers : err[w] = "zerodiv"

C10_AllZeroDiv == \A w \in Workers : pc[w] = "failed" /\ err[w] = "zerodiv"

\* C10: with a key registered, a dataloader whose reduced total is 0 ends the
\* call of every worker with a division by zero raised after that reduction
\* returned, so no worker stays in the barrier; with no key registered nothing
\* is divided and metrics_func returns the empty mapping.
C10_ZeroTotalDivides ==
    /\ []C10_ZeroTotalSafe
    /\ (C10_SomeZeroDiv ~> C10_AllZeroDiv)

C10_Witness ==
    /\ world_size = 2 /\ Len(dataloaders) = 2 /\ metric_dict # << >>
    /\ C10_AllZeroDiv
    /\ \A w \in Workers :
          /\ Len(reduced[w]) = 2
          /\ reduced[w][1].total > 0 /\ reduced[w][2].total = 0

\* C5: a first input of length L <= 10 is given to the model once, whole; a
\* longer one in ceil(L / 10) calls on consecutive slices of every input, each
\* of 10 positions but the last, which has the L - 10 * (ceil(L / 10) - 1) > 0
\* remaining ones; the logits are the per-call logits in call order and have
\* one entry per position.
C5_Chunking ==
    fpc = "done" =>
        LET L == Len(inputs[1])
            n == Len(calls)
            last == L - segment_length * (n - 1)
        IN  /\ L <= segment_length => calls = <<inputs>>
            /\ L > segment_length =>
                  /\ segment_length * (n - 1) < L /\ L <= segment_length * n
                  /\ last > 0
                  /\ \A c \in 1 .. n : \A j \in DOMAIN inputs :
                        Len(calls[c][j]) = IF c < n THEN segment_length ELSE last
                  /\ \A j \in DOMAIN inputs :
                        Cat([c \in 1 .. n |-> calls[c][j]]) = inputs[j]
            /\ logits = Cat([c \in 1 .. n |-> Model(calls[c])])
            /\ Len(logits) = L

C5_Witness ==
    /\ fpc = "done" /\ Len(inputs[1]) = 23 /\ Len(inputs) = 5
    /\ Len(calls) = 3
    /\ Len(calls[1][5]) = 10 /\ Len(calls[2][5]) = 10 /\ Len(calls[3][5]) = 3
    /\ Len(logits) = 23

\* C9: the loss mask is applied only when the batch carries one; it leaves the
\* logit of every position of mask 1 as it was and sets the logit of every
\* position of mask 0 to -10000, so the argmax is a position of mask 1 as soon
\* as one of them has a logit above -10000; a mask of ones changes nothing.
C9_LossMask ==
    /\ fpc \in {"masked", "predicted"} =>
          IF has_loss_mask
          THEN \A p \in DOMAIN logits :
                  /\ loss_mask[p] = 1 => logits[p] = raw_logits[p]
                  /\ loss_mask[p] = 0 => logits[p] = -MaskFill
          ELSE logits = raw_logits
    /\ (/\ fpc = "predicted" /\ has_loss_mask
        /\ \E p \in DOMAIN logits : loss_mask[p] = 1 /\ raw_logits[p] > -MaskFill)
          => loss_mask[predicted] = 1

C9_Witness ==
    /\ fpc = "predicted" /\ has_loss_mask
    /\ loss_mask = <<0, 1, 1>> /\ raw_logits = <<3, -MaskFill + 1, -MaskFill>>
    /\ logits = <<-MaskFill, -MaskFill + 1, -MaskFill>> /\ predicted = 2

====
